---- MODULE Spec2Model ----
(***************************************************************************)
(* QuickAnimations (src/QuickAnimations.py): the first-run bootstrap       *)
(* wizard (SetupScreen), the launch gate (is_setup_complete, main) and the *)
(* render trigger of the main screen (QuickAnimationsApp), as one state    *)
(* machine.  The Tk event loop is the UI thread: it runs button handlers   *)
(* and the callbacks that worker threads post with root.after, one at a    *)
(* time and in posting order.  Each worker thread is a program counter;    *)
(* every subprocess call, download and file operation is one worker step   *)
(* whose outcome is chosen by the environment.  The headless conversion     *)
(* (_process_svg_cli), the interpreter locator (find_system_python) and the *)
(* message of a failed step have specifications of their own.              *)
(***************************************************************************)
EXTENDS Naturals, Sequences, FiniteSets

\* ------------------------------------------------------------------ bounds
\* How many bootstrap runs the user starts in one session of the wizard (the
\* first one and the retries after a failed run).
MaxRuns == 2
\* How many of the locator's candidates exist as files on one machine.
MaxFiles == 2
\* How long the stderr of a failed tool is, in characters.
MaxStderr == 310

\* ------------------------------------------------------------------- paths
VENV_DIR == "~/.quickanimations/venv"
VenvExe == "~/.quickanimations/venv/Scripts/python.exe"
InstalledExe == "~/.quickanimations/python/python.exe"
PYTHON_VERSION == "3.11.9"
\* A system interpreter the locator can find, an interpreter the user can pick
\* in the file dialog, and a file that is no executable at all.
SysExe == "C:/Python311/python.exe"
CustomExe == "D:/tools/py/Scripts/python.exe"
CustomDir == "D:/tools/py"
NonExe == "D:/notes.txt"

\* os.path.dirname(os.path.dirname(chosen)) of the paths the dialog can return.
Dirname2(p) ==
  IF p = CustomExe THEN CustomDir
  ELSE IF p = VenvExe THEN VENV_DIR
  ELSE "D:/"

Steps == <<"python", "venv", "pip", "manim", "ffmpeg">>
StepKeys == {Steps[i] : i \in 1..Len(Steps)}
StepIndex(k) == CHOOSE i \in 1..Len(Steps) : Steps[i] = k

\* ------------------------------------------------------ find_system_python
\* Text is a sequence of characters.
Digits == <<"0", "1", "2", "3", "4", "5", "6", "7", "8", "9">>
IsDigit(c) == \E i \in 1..Len(Digits) : Digits[i] = c
DigitValue(c) == (CHOOSE i \in 1..Len(Digits) : Digits[i] = c) - 1
Whitespace == {" ", "\n"}

\* str(n) for the numbers a version holds.
NumberText(n) ==
  IF n < 10 THEN <<Digits[n + 1]>>
  ELSE <<Digits[(n \div 10) + 1], Digits[(n % 10) + 1]>>

\* What "python --version" prints for version v.
VersionOutput(v) ==
  <<"P", "y", "t", "h", "o", "n", " ">> \o NumberText(v.major) \o <<".">>
  \o NumberText(v.minor) \o <<".">> \o NumberText(v.patch) \o <<"\n">>

\* str.strip()
RECURSIVE LStrip(_)
LStrip(t) == IF t # <<>> /\ Head(t) \in Whitespace THEN LStrip(Tail(t)) ELSE t
RECURSIVE RStrip(_)
RStrip(t) ==
  IF t # <<>> /\ t[Len(t)] \in Whitespace THEN RStrip(SubSeq(t, 1, Len(t) - 1))
  ELSE t
Strip(t) == RStrip(LStrip(t))

\* sub in t
Contains(sub, t) ==
  \E i \in 1..(Len(t) + 1) :
    i + Len(sub) - 1 <= Len(t) /\ SubSeq(t, i, i + Len(sub) - 1) = sub

\* t.split(sep) for a separator of one character.
RECURSIVE Split(_, _)
Split(t, sep) ==
  IF \A i \in 1..Len(t) : t[i] # sep THEN <<t>>
  ELSE LET k == CHOOSE i \in 1..Len(t) :
                  t[i] = sep /\ \A j \in 1..(i - 1) : t[j] # sep IN
       <<SubSeq(t, 1, k - 1)>> \o Split(SubSeq(t, k + 1, Len(t)), sep)

\* int(t): the number, or ValueError; surrounding whitespace is accepted.
RECURSIVE DecimalValue(_)
DecimalValue(t) ==
  IF t = <<>> THEN 0
  ELSE 10 * DecimalValue(SubSeq(t, 1, Len(t) - 1)) + DigitValue(t[Len(t)])
int(t) ==
  LET d == Strip(t) IN
  IF d # <<>> /\ \A i \in 1..Len(d) : IsDigit(d[i])
  THEN [raised |-> FALSE, value |-> DecimalValue(d)]
  ELSE [raised |-> TRUE, value |-> 0]

\* The candidates in the order the list is built: shutil.which of the three
\* names, then for each of 311, 312, 310, 39, 313 the per-user and the C:\ path.
Candidates ==
  <<"which python", "which python3", "which py",
    "LOCALAPPDATA/Programs/Python/Python311/python.exe", "C:/Python311/python.exe",
    "LOCALAPPDATA/Programs/Python/Python312/python.exe", "C:/Python312/python.exe",
    "LOCALAPPDATA/Programs/Python/Python310/python.exe", "C:/Python310/python.exe",
    "LOCALAPPDATA/Programs/Python/Python39/python.exe", "C:/Python39/python.exe",
    "LOCALAPPDATA/Programs/Python/Python313/python.exe", "C:/Python313/python.exe">>
None == "None"

\* What "<candidate> --version" does: it cannot be started, it exceeds the 5 s,
\* or it returns with an exit code, having printed a version or nothing.
NoVersion == [major |-> 0, minor |-> 0, patch |-> 0]
Versions ==
  {[major |-> 3, minor |-> 7, patch |-> 9], [major |-> 3, minor |-> 8, patch |-> 10],
   [major |-> 3, minor |-> 11, patch |-> 9], [major |-> 2, minor |-> 7, patch |-> 18]}
Queries ==
  {[kind |-> k, exit |-> 0, version |-> NoVersion] : k \in {"OSError", "TimeoutExpired"}}
  \cup {[kind |-> "returned", exit |-> x, version |-> v] :
          x \in {0, 1}, v \in Versions \cup {NoVersion}}
Stdout(q) == IF q.version = NoVersion THEN <<>> ELSE VersionOutput(q.version)

\* A candidate that which did not find or that is not a file.
Absent == [isfile |-> FALSE, query |-> [kind |-> "", exit |-> 0, version |-> NoVersion]]

MinMinor == 8

\* The body of the for loop for one candidate: "return", "next", or the
\* exception raised inside the try.
Attempt(c) ==
  IF ~c.isfile THEN "next"
  ELSE IF c.query.kind # "returned" THEN c.query.kind
  ELSE LET ver_str == Strip(Stdout(c.query)) IN
       IF ~Contains(<<"P", "y", "t", "h", "o", "n", " ", "3", ".">>, ver_str)
       THEN "next"
       ELSE LET parts == Split(ver_str, ".") IN
            IF Len(parts) < 2 THEN "next"
            ELSE LET minor == int(parts[2]) IN
                 IF minor.raised THEN "ValueError"
                 ELSE IF minor.value >= MinMinor THEN "return" ELSE "next"

\* for path in candidates: ...; return None.  "except Exception: continue"
\* sends every exception of the try to the next candidate.
RECURSIVE SearchFrom(_, _)
SearchFrom(slots, i) ==
  IF i > Len(Candidates) THEN None
  ELSE LET a == Attempt(slots[i]) IN
       IF a = "return" THEN Candidates[i]
       ELSE IF a \in {"OSError", "TimeoutExpired", "ValueError"}
       THEN SearchFrom(slots, i + 1)
       ELSE SearchFrom(slots, i + 1)

find_system_python(slots) == SearchFrom(slots, 1)

\* A machine on which the candidates in F are files that answer the version
\* query as q says.
Machine(F, q) ==
  [i \in 1..Len(Candidates) |->
     IF i \in F THEN [isfile |-> TRUE, query |-> q[i]] ELSE Absent]
Pending == "pending"
NoLocator == [slots |-> <<>>, result |-> Pending]

\* ------------------------------------------------- messages of a failed step
\* t[:n] and t[-n:]
SliceTo(t, n) == SubSeq(t, 1, IF Len(t) < n THEN Len(t) ELSE n)
SliceFromEnd(t, n) == SubSeq(t, IF Len(t) < n THEN 1 ELSE Len(t) - n + 1, Len(t))

\* The character budgets of the three messages.
VenvBudget == 200
PipBudget == 200
ManimBudget == 300
StderrBudget(step) ==
  CASE step = "venv" -> VenvBudget
    [] step = "pip" -> PipBudget
    [] step = "manim" -> ManimBudget

\* The argument of _fail after a non-zero exit: the step's fixed text followed
\* by the part of result.stderr it keeps.
FailureMessage(step, stderr) ==
  [about |-> step, text |-> SliceTo(stderr, StderrBudget(step))]

\* A stderr of n characters, each known by its position.
StderrOf(n) == [i \in 1..n |-> i]
NoReport == [step |-> "", stderr |-> 0, built |-> FALSE, message |-> <<>>]

VARIABLES
  \* the files on disk
  marker,          \* SETUP_MARKER: absent, unparsable, or the JSON record
  exeFiles,        \* the interpreter paths that exist as files
  manimIn,         \* the interpreters in which "import manim" succeeds
  venvDir,         \* VENV_DIR: [exists, files], files tagged fresh or stale
  \* the process
  PYTHON_EXE,      \* the module-level global
  screen,          \* closed | setup | main
  runs,            \* bootstrap runs started in this session
  gate,            \* the last call of is_setup_complete: its inputs and result
  uiQueue,         \* callbacks posted with root.after, oldest first
  \* SetupScreen
  installing,      \* self._installing
  checks,          \* the state last drawn by _set_check for each step
  descs,           \* the description label of each step
  status_var,
  install_btn,     \* ModernButton._disabled of the install button
  skip_btn,        \* ModernButton._disabled of the skip button
  progress,        \* GlowProgressBar: [animating, value]
  \* the bootstrap worker thread (_install_worker)
  installPc,
  installWorkers,  \* _install_worker threads started and not yet returned
  python_for_venv,
  run,             \* what the current run has done and how it ended
  loc,             \* find_system_python: the candidates' state and its result
  report,          \* a non-zero exit: the step, its stderr and the message built
  \* the skip-validation worker thread (validate)
  skipPc,
  skipWorkers,
  chosen,
  skipRun,         \* [marker0, exe0, outcome, err]
  \* QuickAnimationsApp
  svg_path,
  is_processing,
  render_btn,
  status_text,
  render_progress, \* the main screen's GlowProgressBar
  renderPc,
  renderWorkers,
  outputFile,      \* whether <stem>_animation.mp4 exists on the desktop
  rendered,        \* what the last renderer call did
  cli              \* a headless start: its position and what it has done

fsVars == <<marker, exeFiles, manimIn, venvDir>>
setupVars == <<installing, checks, descs, status_var, install_btn, skip_btn, progress>>
installVars == <<installPc, installWorkers, python_for_venv, run, loc, report>>
skipVars == <<skipPc, skipWorkers, chosen, skipRun>>
mainVars == <<svg_path, is_processing, render_btn, status_text, render_progress>>
renderVars == <<renderPc, renderWorkers, outputFile, rendered, cli>>
vars == <<marker, exeFiles, manimIn, venvDir, PYTHON_EXE, screen, runs, gate,
          uiQueue, installing, checks, descs, status_var, install_btn, skip_btn,
          progress, installPc, installWorkers, python_for_venv, run, loc, report,
          skipPc,
          skipWorkers, chosen, skipRun, svg_path, is_processing, render_btn,
          status_text, render_progress, renderPc, renderWorkers, outputFile,
          rendered, cli>>

\* ------------------------------------------------------------ Setup Record
NoMarker == [kind |-> "absent", python_version |-> "", venv_dir |-> "",
             python_exe |-> "", skipped_setup |-> FALSE]
Unparsable == [kind |-> "unparsable", python_version |-> "", venv_dir |-> "",
               python_exe |-> "", skipped_setup |-> FALSE]
\* skipped_setup = FALSE stands for a record without that key.
Record(ver, dir, exe, skipped) ==
  [kind |-> "record", python_version |-> ver, venv_dir |-> dir,
   python_exe |-> exe, skipped_setup |-> skipped]

\* A record as the bootstrap would write it had it taken the skip path's
\* version label: C7 tells it from InstallRecord.
InstallRecordLabelledCustom(exe) == Record("custom", VENV_DIR, exe, FALSE)

\* What _install_worker dumps once every step has succeeded.
InstallRecord(exe) == Record(PYTHON_VERSION, VENV_DIR, exe, FALSE)

\* A record as validate would write it had it kept the bootstrap's version
\* label and left out skipped_setup: C6 tells it from SkipRecord.
SkipRecordLabelledInstalled(p) == Record(PYTHON_VERSION, Dirname2(p), p, FALSE)

\* What validate dumps for the interpreter the user picked.
SkipRecord(p) == Record("custom", Dirname2(p), p, TRUE)

\* --------------------------------------------------------------- launch gate
\* A probe whose answer is not looked at: C3 tells it from ImportProbe.
ImportProbeIgnored(exe, manim, timedOut) == TRUE

\* The import probe of is_setup_complete and of validate: stdout is "ok" exactly
\* when the interpreter imports manim and the call does not time out.
ImportProbe(exe, manim, timedOut) == exe \in manim /\ ~timedOut

\* A gate that does not ask for the marker file: C2 tells it from MarkerIsFile.
MarkerIsFileNotAsked(m) == TRUE

\* os.path.isfile(SETUP_MARKER)
MarkerIsFile(m) == m.kind # "absent"

\* PYTHON_EXE after the marker was loaded: the saved path when the marker parses
\* and that path is a file, else the value it had (json.load raising is passed).
LoadedExe(m, exe0, files) ==
  IF m.kind = "record" /\ m.python_exe \in files THEN m.python_exe ELSE exe0

\* is_setup_complete(): its return value and the PYTHON_EXE it leaves behind.
is_setup_complete(m, exe0, files, manim, timedOut) ==
  IF ~MarkerIsFile(m) THEN [result |-> FALSE, python_exe |-> exe0]
  ELSE LET exe == LoadedExe(m, exe0, files) IN
       IF exe \notin files THEN [result |-> FALSE, python_exe |-> exe]
       ELSE [result |-> ImportProbe(exe, manim, timedOut), python_exe |-> exe]

\* A start that builds the wizard whatever the gate says: C18 tells it from
\* Shown.
ShownWizardOnly(result) == "setup"

\* main(): the screen a windowed start builds from the gate's result.
Shown(result) == IF result THEN "main" ELSE "setup"

\* What the last start of the program found on disk and what its gate answered.
NoGate == [ran |-> FALSE, mode |-> "", kind |-> "", ref_exists |-> FALSE,
           ref_imports |-> FALSE, default_exists |-> FALSE,
           default_imports |-> FALSE, timed_out |-> FALSE, result |-> FALSE,
           shown |-> ""]
GateLog(mode, m, files, manim, timedOut, res, shown) ==
  [ran |-> TRUE, mode |-> mode, kind |-> m.kind,
   ref_exists |-> (m.kind = "record" /\ m.python_exe \in files),
   ref_imports |-> (m.kind = "record" /\ m.python_exe \in manim),
   default_exists |-> (VenvExe \in files),
   default_imports |-> (VenvExe \in manim),
   timed_out |-> timedOut, result |-> res, shown |-> shown]

\* ------------------------------------------------------- widgets as built
InitialChecks == [k \in StepKeys |-> "pending"]
InitialDescs == [k \in StepKeys |-> "initial"]
Status(kind, arg) == [kind |-> kind, arg |-> arg]
InitialStatus == Status("initial", "")
InitialProgress == [animating |-> FALSE, value |-> 0]
\* What a bootstrap run has done so far: the steps whose 'active' and whose
\* 'done' status it has emitted, the marker it found, how it ended and, for a
\* failed run, the step in progress and the call that failed.
NoRun == [started |-> {}, done |-> {}, marker0 |-> NoMarker, outcome |-> "none",
          at |-> "", how |-> "", call |-> ""]
\* A headless start: the form of the command line, where _process_svg_cli
\* stands, what it has printed, whether it has written the scene script, how
\* often it has called the renderer, and whether an exception left it.
NoCli == [form |-> "", pc |-> "", printed |-> <<>>, script |-> FALSE,
          renders |-> 0, escaped |-> FALSE]

\* The same for a skip-validation run: the file picked, the marker, PYTHON_EXE
\* and the environment it found, how it ended and the text it has to report.
NoSkipRun == [path |-> "", marker0 |-> NoMarker, exe0 |-> "", venv0 |-> {},
              outcome |-> "none", err |-> ""]

\* SetupScreen.__init__ and _build_ui
SetupScreenInit ==
  /\ installing' = FALSE
  /\ checks' = InitialChecks
  /\ descs' = InitialDescs
  /\ status_var' = InitialStatus
  /\ install_btn' = FALSE
  /\ skip_btn' = FALSE
  /\ progress' = InitialProgress

\* QuickAnimationsApp.__init__ and _build_ui
MainScreenInit ==
  /\ svg_path' = ""
  /\ is_processing' = FALSE
  /\ render_btn' = FALSE
  /\ status_text' = Status("initial", "")
  /\ render_progress' = InitialProgress

\* ------------------------------------------------------------------- Init
\* The files a session can find on disk: the marker, the state of the
\* environment (none, its directory with an interpreter that lacks manim, or
\* complete) and of the interpreter the user can pick (missing, without manim,
\* with manim).
Disk(m, venv, custom) ==
  [marker |-> m,
   exeFiles |-> (IF venv = "none" THEN {} ELSE {VenvExe})
                \cup (IF custom = "missing" THEN {} ELSE {CustomExe}),
   manimIn |-> (IF venv = "ready" THEN {VenvExe} ELSE {})
               \cup (IF custom = "manim" THEN {CustomExe} ELSE {}),
   venvDir |-> [exists |-> venv # "none",
                files |-> IF venv = "none" THEN {} ELSE {"stale"}]]

InitialMarkers ==
  {NoMarker, Unparsable, InstallRecord(VenvExe), SkipRecord(CustomExe)}

\* Every combination, for the launch gate.
AllDisks ==
  {Disk(m, venv, custom) : m \in InitialMarkers, venv \in {"none", "bare", "ready"},
                           custom \in {"missing", "bare", "manim"}}

\* For the wizard: a fresh machine; a skip-validated install; a completed
\* bootstrap; a marker whose environment lost manim; a skip-validated install
\* whose interpreter lost manim.
WizardDisks ==
  {Disk(NoMarker, "none", "missing"),
   Disk(SkipRecord(CustomExe), "none", "manim"),
   Disk(InstallRecord(VenvExe), "ready", "bare"),
   Disk(InstallRecord(VenvExe), "bare", "manim"),
   Disk(SkipRecord(CustomExe), "none", "bare")}

InitOn(disks) ==
  /\ \E d \in disks :
       /\ marker = d.marker
       /\ exeFiles = d.exeFiles
       /\ manimIn = d.manimIn
       /\ venvDir = d.venvDir
  /\ PYTHON_EXE = VenvExe
  /\ screen = "closed"
  /\ runs = 0
  /\ gate = NoGate
  /\ uiQueue = <<>>
  /\ installing = FALSE
  /\ checks = InitialChecks
  /\ descs = InitialDescs
  /\ status_var = InitialStatus
  /\ install_btn = FALSE
  /\ skip_btn = FALSE
  /\ progress = InitialProgress
  /\ installPc = "idle" /\ installWorkers = 0 /\ python_for_venv = ""
  /\ run = NoRun
  /\ skipPc = "idle" /\ skipWorkers = 0 /\ chosen = "" /\ skipRun = NoSkipRun
  /\ svg_path = "" /\ is_processing = FALSE /\ render_btn = FALSE
  /\ status_text = Status("initial", "")
  /\ render_progress = InitialProgress
  /\ renderPc = "idle" /\ renderWorkers = 0
  /\ rendered = ""
  /\ cli = NoCli

Init ==
  InitOn(WizardDisks) /\ loc = NoLocator /\ report = NoReport /\ outputFile = FALSE

\* ------------------------------------------------------------------- main()
\* python QuickAnimations.py: the gate decides between the two screens.
LaunchGui ==
  /\ screen = "closed"
  /\ \E timedOut \in BOOLEAN :
       LET g == is_setup_complete(marker, VenvExe, exeFiles, manimIn, timedOut) IN
       /\ PYTHON_EXE' = g.python_exe
       /\ gate' = GateLog("gui", marker, exeFiles, manimIn, timedOut, g.result,
                          Shown(g.result))
       /\ screen' = Shown(g.result)
  /\ runs' = 0
  /\ SetupScreenInit
  /\ MainScreenInit
  /\ UNCHANGED <<fsVars, uiQueue, installVars, skipVars, renderVars>>

\* python QuickAnimations.py --setup: the wizard, whatever the marker says.
LaunchSetup ==
  /\ screen = "closed"
  /\ screen' = "setup"
  /\ runs' = 0
  /\ PYTHON_EXE' = VenvExe
  /\ gate' = [NoGate EXCEPT !.ran = TRUE, !.mode = "setup", !.shown = "setup"]
  /\ SetupScreenInit
  /\ MainScreenInit
  /\ UNCHANGED <<fsVars, uiQueue, installVars, skipVars, renderVars>>

\* ------------------------------------------------- posting to the UI thread
Cb(op, a, b) == [op |-> op, a |-> a, b |-> b]

\* _update_status(text, check_key, check_state): root.after(0, status_var.set)
\* and, with a key and a state, root.after(0, _set_check).
update_status(text, key, state) ==
  <<Cb("status", "progress", text)>>
  \o (IF key # "" /\ state # "" THEN <<Cb("check", key, state)>> ELSE <<>>)

\* _update_desc(key, text).  The label's text is never read back: the model
\* keeps only whether the label still shows its initial text.
update_desc(key, text) == <<Cb("desc", key, "updated")>>

\* The five callbacks _fail posts, in its order.
FailCallbacks(message, check_key) ==
  (IF check_key # "" THEN <<Cb("check", check_key, "error")>> ELSE <<>>)
  \o <<Cb("stop_indeterminate", "", ""), Cb("set_progress", "0", ""),
       Cb("status", "fail", message), Cb("enable_install", "", "")>>

\* The step whose 'active' status the run emitted last.
InProgress(started) ==
  IF started = {} THEN ""
  ELSE Steps[CHOOSE i \in 1..Len(Steps) :
               /\ Steps[i] \in started
               /\ \A j \in 1..Len(Steps) : Steps[j] \in started => j <= i]

\* The steps for which cbs holds a _set_check with this state.
Emitted(cbs, state) ==
  {cbs[i].a : i \in {j \in 1..Len(cbs) : cbs[j].op = "check" /\ cbs[j].b = state}}

\* _fail(message, check_key), up to its last line: the callbacks are posted
\* (after those the failing call posted itself, pre).
FailAfter(pre, message, check_key, how) ==
  /\ uiQueue' = uiQueue \o pre \o FailCallbacks(message, check_key)
  /\ installPc' = "fail_return"
  /\ run' = [run EXCEPT !.outcome = "failed", !.at = InProgress(run.started),
                        !.how = how, !.call = installPc]
  /\ UNCHANGED <<installing, installWorkers>>

Fail(message, check_key, how) == FailAfter(<<>>, message, check_key, how)

\* except Exception as e: self._fail(f"Beklenmeyen hata: ...") -- no check_key.
Raise == Fail("unexpected", "", "exception")

\* The worker goes on to pc, having posted cbs.
Goto(pc, cbs) ==
  /\ installPc' = pc
  /\ uiQueue' = uiQueue \o cbs
  /\ run' = [run EXCEPT !.started = run.started \cup Emitted(cbs, "active"),
                        !.done = run.done \cup Emitted(cbs, "done")]
  /\ UNCHANGED <<installing, installWorkers>>

\* --------------------------------------------------- SetupScreen: bootstrap
\* _start_install, the install button's command.
start_install ==
  IF installing THEN UNCHANGED vars
  ELSE
    /\ installing' = TRUE
    /\ install_btn' = TRUE
    /\ skip_btn' = TRUE
    /\ progress' = [progress EXCEPT !.animating = TRUE]
    /\ installPc' = "start"
    /\ installWorkers' = installWorkers + 1
    /\ python_for_venv' = ""
    /\ run' = [NoRun EXCEPT !.marker0 = marker, !.outcome = "running"]
    /\ runs' = runs + 1
    /\ skipRun' = NoSkipRun
    /\ UNCHANGED <<loc, report, fsVars, PYTHON_EXE, screen, gate, uiQueue, checks, descs,
                   status_var, skipPc, skipWorkers, chosen, mainVars, renderVars>>

\* ModernButton._on_release of the install button: a disabled button ignores it.
ClickInstall ==
  /\ screen = "setup"
  /\ runs < MaxRuns
  /\ IF install_btn THEN UNCHANGED vars ELSE start_install

UNCHANGED_BY_WORKER ==
  UNCHANGED <<loc, report, PYTHON_EXE, screen, runs, gate, checks, descs, status_var,
              install_btn, skip_btn, progress, skipVars, mainVars, renderVars>>

\* os.makedirs(APP_DIR) and the first status; find_system_python() is next.
InstallStart ==
  /\ installPc = "start"
  /\ Goto("find", update_status("searching", "python", "active"))
  /\ UNCHANGED <<fsVars, python_for_venv>>
  /\ UNCHANGED_BY_WORKER

\* Step 1: find_system_python() returns a path or None.
InstallFind ==
  /\ installPc = "find"
  /\ \E found \in BOOLEAN :
       IF found
       THEN /\ python_for_venv' = SysExe
            /\ Goto("rmtree",
                    update_desc("python", "found")
                    \o update_status("found", "python", "done")
                    \o update_status("creating_venv", "venv", "active"))
       ELSE /\ python_for_venv' = ""
            /\ Goto("download", update_status("downloading", "python", "active"))
  /\ UNCHANGED fsVars
  /\ UNCHANGED_BY_WORKER

\* Step 1, no system interpreter: _download_python() returns the installed
\* python.exe, or None when a download raised or the installer left no file.
InstallDownload ==
  /\ installPc = "download"
  /\ \E outcome \in {"ok", "download_error", "no_exe"} :
       LET inside == IF outcome = "download_error" THEN <<>>
                     ELSE update_status("fetching_installer", "", "")
                          \o update_status("running_installer", "", "") IN
       IF outcome = "ok"
       THEN /\ python_for_venv' = InstalledExe
            /\ Goto("rmtree",
                    inside \o update_desc("python", "downloaded")
                    \o update_status("downloaded", "python", "done")
                    \o update_status("creating_venv", "venv", "active"))
       ELSE /\ UNCHANGED python_for_venv
            /\ FailAfter(inside, "python_download_failed", "python", "exit")
  /\ UNCHANGED fsVars
  /\ UNCHANGED_BY_WORKER

\* Step 2: shutil.rmtree(VENV_DIR, ignore_errors=True) when the directory
\* exists; with errors ignored the directory and its files may survive.
InstallRmtree ==
  /\ installPc = "rmtree"
  /\ IF venvDir.exists
     THEN \E removed \in BOOLEAN :
            IF removed
            THEN /\ venvDir' = [exists |-> FALSE, files |-> {}]
                 /\ exeFiles' = exeFiles \ {VenvExe}
                 /\ manimIn' = manimIn \ {VenvExe}
            ELSE /\ venvDir' = [exists |-> TRUE, files |-> {"stale"}]
                 /\ UNCHANGED <<exeFiles, manimIn>>
     ELSE UNCHANGED <<venvDir, exeFiles, manimIn>>
  /\ Goto("venv", <<>>)
  /\ UNCHANGED <<marker, python_for_venv>>
  /\ UNCHANGED_BY_WORKER

\* Step 2: python_for_venv -m venv VENV_DIR.  python_for_venv is not read after
\* this call.
InstallVenv ==
  /\ installPc = "venv"
  /\ \E outcome \in {"ok", "nonzero", "timeout"} :
       CASE outcome = "ok" ->
              /\ venvDir' = [exists |-> TRUE, files |-> venvDir.files \cup {"fresh"}]
              /\ exeFiles' = exeFiles \cup {VenvExe}
              /\ Goto("pip_check",
                      update_desc("venv", "venv_dir")
                      \o update_status("venv_created", "venv", "done")
                      \o update_status("checking_pip", "pip", "active"))
         [] outcome = "nonzero" ->
              /\ Fail("venv_failed", "venv", "exit")
              /\ UNCHANGED <<venvDir, exeFiles>>
         [] outcome = "timeout" ->
              /\ Raise
              /\ UNCHANGED <<venvDir, exeFiles>>
  /\ python_for_venv' = ""
  /\ UNCHANGED <<marker, manimIn>>
  /\ UNCHANGED_BY_WORKER

\* Step 3: venv_python -m pip --version.
InstallPipCheck ==
  /\ installPc = "pip_check"
  /\ \E outcome \in {"ok", "nonzero", "timeout"} :
       CASE outcome = "ok" -> Goto("pip_upgrade", <<>>)
         [] outcome = "nonzero" ->
              Goto("get_pip_download", update_status("downloading_pip", "pip", "active"))
         [] outcome = "timeout" -> Raise
  /\ UNCHANGED <<fsVars, python_for_venv>>
  /\ UNCHANGED_BY_WORKER

\* Step 3, pip missing: _download_file(GET_PIP_URL, ...) raises RuntimeError when
\* the download fails.
InstallGetPipDownload ==
  /\ installPc = "get_pip_download"
  /\ \E outcome \in {"ok", "download_error"} :
       IF outcome = "ok" THEN Goto("get_pip_run", <<>>) ELSE Raise
  /\ UNCHANGED <<fsVars, python_for_venv>>
  /\ UNCHANGED_BY_WORKER

\* Step 3, pip missing: venv_python get-pip.py.
InstallGetPipRun ==
  /\ installPc = "get_pip_run"
  /\ \E outcome \in {"ok", "nonzero", "timeout"} :
       CASE outcome = "ok" -> Goto("pip_upgrade", <<>>)
         [] outcome = "nonzero" -> Fail("pip_failed", "pip", "exit")
         [] outcome = "timeout" -> Raise
  /\ UNCHANGED <<fsVars, python_for_venv>>
  /\ UNCHANGED_BY_WORKER

\* Step 3: pip install --upgrade pip; its return code is not looked at.
InstallPipUpgrade ==
  /\ installPc = "pip_upgrade"
  /\ \E outcome \in {"ok", "nonzero", "timeout"} :
       IF outcome = "timeout" THEN Raise
       ELSE Goto("manim",
                 update_desc("pip", "pip_ready")
                 \o update_status("pip_ready", "pip", "done")
                 \o update_status("installing_manim", "manim", "active"))
  /\ UNCHANGED <<fsVars, python_for_venv>>
  /\ UNCHANGED_BY_WORKER

\* Step 4: pip install manim.
InstallManim ==
  /\ installPc = "manim"
  /\ \E outcome \in {"ok", "nonzero", "timeout"} :
       CASE outcome = "ok" ->
              /\ manimIn' = manimIn \cup {VenvExe}
              /\ Goto("ffmpeg",
                      update_desc("manim", "manim_installed")
                      \o update_status("manim_installed", "manim", "done")
                      \o update_status("checking_ffmpeg", "ffmpeg", "active"))
         [] outcome = "nonzero" ->
              /\ Fail("manim_failed", "manim", "exit")
              /\ UNCHANGED manimIn
         [] outcome = "timeout" ->
              /\ Raise
              /\ UNCHANGED manimIn
  /\ UNCHANGED <<marker, exeFiles, venvDir, python_for_venv>>
  /\ UNCHANGED_BY_WORKER

\* Step 5: the two probes inside try/except FileNotFoundError.  A missing
\* ffmpeg binary is passed; a timeout of either probe is not caught there.
InstallFfmpeg ==
  /\ installPc = "ffmpeg"
  /\ \E outcome \in {"ok", "nonzero", "not_found", "timeout"} :
       CASE outcome = "ok" ->
              Goto("marker",
                   update_desc("ffmpeg", "system_ffmpeg")
                   \o update_status("ffmpeg_ready", "ffmpeg", "done"))
         [] outcome \in {"nonzero", "not_found"} -> Goto("ffmpeg_fallback", <<>>)
         [] outcome = "timeout" -> Raise
  /\ UNCHANGED <<fsVars, python_for_venv>>
  /\ UNCHANGED_BY_WORKER

\* Step 5, no system ffmpeg: pip install imageio[ffmpeg]; its return code is
\* not looked at.
InstallFfmpegFallback ==
  /\ installPc = "ffmpeg_fallback"
  /\ \E outcome \in {"ok", "nonzero", "timeout"} :
       IF outcome = "timeout" THEN Raise
       ELSE Goto("marker",
                 update_desc("ffmpeg", "imageio_ffmpeg")
                 \o update_status("ffmpeg_ready", "ffmpeg", "done"))
  /\ UNCHANGED <<fsVars, python_for_venv>>
  /\ UNCHANGED_BY_WORKER

\* Done: json.dump of the record into SETUP_MARKER, then
\* root.after(0, self._on_install_complete); the worker returns.
InstallWriteMarker ==
  /\ installPc = "marker"
  /\ marker' = InstallRecord(PYTHON_EXE)
  /\ uiQueue' = uiQueue \o <<Cb("install_complete", "", "")>>
  /\ installPc' = "idle"
  /\ installWorkers' = installWorkers - 1
  /\ run' = [run EXCEPT !.outcome = "complete"]
  /\ UNCHANGED <<exeFiles, manimIn, venvDir, installing, python_for_venv>>
  /\ UNCHANGED_BY_WORKER

\* _fail ending with the install button enabled by the worker itself instead
\* of by a posted callback: C19 tells it from InstallFailReturn.
InstallFailReturnEnablingButton ==
  /\ installPc = "fail_return"
  /\ installing' = FALSE
  /\ install_btn' = FALSE
  /\ installPc' = "idle"
  /\ installWorkers' = installWorkers - 1
  /\ UNCHANGED <<fsVars, uiQueue, run, python_for_venv, loc, report, PYTHON_EXE, screen,
                 runs, gate, checks, descs, status_var, skip_btn, progress,
                 skipVars, mainVars, renderVars>>

\* _fail's last line, self._installing = False, and the worker's return.
InstallFailReturn ==
  /\ installPc = "fail_return"
  /\ installing' = FALSE
  /\ installPc' = "idle"
  /\ installWorkers' = installWorkers - 1
  /\ UNCHANGED <<fsVars, uiQueue, run, python_for_venv>>
  /\ UNCHANGED_BY_WORKER

InstallWorkerStep ==
  \/ InstallFailReturn
  \/ InstallStart
  \/ InstallFind
  \/ InstallDownload
  \/ InstallRmtree
  \/ InstallVenv
  \/ InstallPipCheck
  \/ InstallGetPipDownload
  \/ InstallGetPipRun
  \/ InstallPipUpgrade
  \/ InstallManim
  \/ InstallFfmpeg
  \/ InstallFfmpegFallback
  \/ InstallWriteMarker

\* --------------------------------------------- SetupScreen: skip-validation
SvgFile == "D:/logo.svg"

\* What filedialog.askopenfilename can return: "" when cancelled, else a file
\* that exists.
DialogChoices == {"", NonExe} \cup (exeFiles \cap {CustomExe})

\* _skip_setup without self.skip_btn.set_disabled(True): C9 tells it from
\* skip_setup.
skip_setup_skip_left_enabled ==
  IF installing THEN UNCHANGED vars
  ELSE \E c \in DialogChoices :
    IF c = "" THEN UNCHANGED vars
    ELSE
      /\ status_var' = Status("validating", "")
      /\ install_btn' = TRUE
      /\ UNCHANGED skip_btn
      /\ skipPc' = "probe"
      /\ skipWorkers' = skipWorkers + 1
      /\ chosen' = c
      /\ skipRun' = [path |-> c, marker0 |-> marker, exe0 |-> PYTHON_EXE,
                     venv0 |-> {<<venvDir, exeFiles, manimIn>>},
                     outcome |-> "running", err |-> ""]
      /\ UNCHANGED <<fsVars, PYTHON_EXE, screen, runs, gate, uiQueue,
                     installing, checks, descs, progress, installVars, mainVars,
                     renderVars>>

\* _skip_setup without self.install_btn.set_disabled(True): C10 tells it from
\* skip_setup.
skip_setup_install_left_enabled ==
  IF installing THEN UNCHANGED vars
  ELSE \E c \in DialogChoices :
    IF c = "" THEN UNCHANGED vars
    ELSE
      /\ status_var' = Status("validating", "")
      /\ UNCHANGED install_btn
      /\ skip_btn' = TRUE
      /\ skipPc' = "probe"
      /\ skipWorkers' = skipWorkers + 1
      /\ chosen' = c
      /\ skipRun' = [path |-> c, marker0 |-> marker, exe0 |-> PYTHON_EXE,
                     venv0 |-> {<<venvDir, exeFiles, manimIn>>},
                     outcome |-> "running", err |-> ""]
      /\ UNCHANGED <<fsVars, PYTHON_EXE, screen, runs, gate, uiQueue,
                     installing, checks, descs, progress, installVars, mainVars,
                     renderVars>>

\* _skip_setup, the skip button's command, up to the start of the validate thread.
skip_setup ==
  IF installing THEN UNCHANGED vars
  ELSE \E c \in DialogChoices :
    IF c = "" THEN UNCHANGED vars
    ELSE
      /\ status_var' = Status("validating", "")
      /\ install_btn' = TRUE
      /\ skip_btn' = TRUE
      /\ skipPc' = "probe"
      /\ skipWorkers' = skipWorkers + 1
      /\ chosen' = c
      /\ skipRun' = [path |-> c, marker0 |-> marker, exe0 |-> PYTHON_EXE,
                     venv0 |-> {<<venvDir, exeFiles, manimIn>>},
                     outcome |-> "running", err |-> ""]
      /\ UNCHANGED <<fsVars, PYTHON_EXE, screen, runs, gate, uiQueue,
                     installing, checks, descs, progress, installVars, mainVars,
                     renderVars>>

\* ModernButton._on_release of the skip button.
ClickSkip ==
  /\ screen = "setup"
  /\ IF skip_btn THEN UNCHANGED vars ELSE skip_setup

\* validate(): the probe of the chosen file (chosen is not read after it).  A file that cannot be run, or a
\* probe that times out, raises; otherwise stdout is "ok" or it is not, and
\* then err is the head of stderr or, with an empty stderr, the fixed text.
SkipValidate ==
  /\ skipPc = "probe"
  /\ skipPc' = "idle"
  /\ skipWorkers' = skipWorkers - 1
  /\ chosen' = ""
  /\ \E timedOut \in BOOLEAN, err \in {"stderr_head", "no_import"} :
       IF chosen \notin exeFiles \/ timedOut
       THEN /\ uiQueue' = uiQueue \o <<Cb("skip_fail_exc", "", "")>>
            /\ skipRun' = [skipRun EXCEPT !.outcome = "raised",
                                          !.err = "exception_text"]
            /\ UNCHANGED <<marker, PYTHON_EXE>>
       ELSE IF ImportProbe(chosen, manimIn, timedOut)
       THEN /\ marker' = SkipRecord(chosen)
            /\ PYTHON_EXE' = chosen
            /\ uiQueue' = uiQueue \o <<Cb("skip_success", chosen, "")>>
            /\ skipRun' = [skipRun EXCEPT !.outcome = "ok"]
       ELSE /\ uiQueue' = uiQueue \o <<Cb("skip_fail", err, "")>>
            /\ skipRun' = [skipRun EXCEPT !.outcome = "failed", !.err = err]
            /\ UNCHANGED <<marker, PYTHON_EXE>>
  /\ UNCHANGED <<exeFiles, manimIn, venvDir, screen, runs, gate, setupVars,
                 installVars, mainVars, renderVars>>

\* _on_skip_fail(error)
on_skip_fail(error) ==
  /\ status_var' = Status("skip_fail", error)
  /\ install_btn' = FALSE
  /\ skip_btn' = FALSE
  /\ UNCHANGED <<installing, checks, descs, progress>>

\* ------------------------------------------------ QuickAnimationsApp: render
\* _browse_file, the drop zone's click handler.
BrowseFile ==
  /\ screen = "main"
  /\ IF is_processing THEN UNCHANGED vars
     ELSE \E path \in {"", SvgFile} :
       IF path = "" THEN UNCHANGED vars
       ELSE /\ svg_path' = path
            /\ status_text' = Status("ready", "")
            /\ UNCHANGED <<fsVars, PYTHON_EXE, screen, runs, gate, uiQueue,
                           setupVars, installVars, skipVars, is_processing,
                           render_btn, render_progress, renderVars>>

\* _start_render, the render button's command.
start_render ==
  IF svg_path = "" THEN
    /\ status_text' = Status("warning", "")
    /\ UNCHANGED <<fsVars, PYTHON_EXE, screen, runs, gate, uiQueue, setupVars,
                   installVars, skipVars, svg_path, is_processing, render_btn,
                   render_progress, renderVars>>
  ELSE IF is_processing THEN UNCHANGED vars
  ELSE
    /\ is_processing' = TRUE
    /\ render_btn' = TRUE
    /\ status_text' = Status("starting", "")
    /\ render_progress' = [render_progress EXCEPT !.animating = TRUE]
    /\ renderPc' = "script"
    /\ renderWorkers' = renderWorkers + 1
    /\ UNCHANGED <<fsVars, PYTHON_EXE, screen, runs, gate, uiQueue, setupVars,
                   installVars, skipVars, svg_path, outputFile, rendered, cli>>

\* ModernButton._on_release of the render button.
ClickRender ==
  /\ screen = "main"
  /\ IF render_btn THEN UNCHANGED vars ELSE start_render

RenderReturns(cb) ==
  /\ uiQueue' = uiQueue \o <<cb>>
  /\ renderPc' = "idle"
  /\ renderWorkers' = renderWorkers - 1

\* _render_worker up to the renderer call: the scene script is written and the
\* status posted; a file operation that raises ends in the except clause.
RenderScript ==
  /\ renderPc = "script"
  /\ \E raised \in BOOLEAN :
       IF raised THEN RenderReturns(Cb("render_error_exc", "", ""))
       ELSE /\ uiQueue' = uiQueue \o <<Cb("render_status", "rendering", "")>>
            /\ renderPc' = "manim"
            /\ UNCHANGED renderWorkers
  /\ UNCHANGED <<fsVars, PYTHON_EXE, screen, runs, gate, setupVars,
                 installVars, skipVars, mainVars, outputFile, rendered, cli>>

\* _render_worker from the renderer call on: only an interpreter that imports
\* manim can write the output file; whether the file exists afterwards decides
\* which callback is posted.
RenderManim ==
  /\ renderPc = "manim"
  /\ \E outcome \in {"written", "not_written", "raised"} :
       /\ outcome = "written" => PYTHON_EXE \in manimIn
       /\ outputFile' = (outputFile \/ outcome = "written")
       /\ rendered' = outcome
       /\ IF outcome = "raised" THEN RenderReturns(Cb("render_error_exc", "", ""))
          ELSE IF outputFile'
          THEN RenderReturns(Cb("render_success", "", ""))
          ELSE RenderReturns(Cb("render_error", "stderr_tail", ""))
  /\ UNCHANGED <<fsVars, PYTHON_EXE, screen, runs, gate, setupVars,
                 installVars, skipVars, mainVars, cli>>

\* _on_render_success(output_path)
on_render_success ==
  /\ render_progress' = [animating |-> FALSE, value |-> 1]
  /\ is_processing' = FALSE
  /\ render_btn' = FALSE
  /\ status_text' = Status("done", "")
  /\ UNCHANGED svg_path

\* _on_render_error(error_msg)
on_render_error ==
  /\ render_progress' = [animating |-> FALSE, value |-> 0]
  /\ is_processing' = FALSE
  /\ render_btn' = FALSE
  /\ status_text' = Status("failed", "")
  /\ UNCHANGED svg_path

\* ------------------------------------------------ the UI thread's event loop
\* The oldest posted callback is due.
Due(op) == uiQueue # <<>> /\ Head(uiQueue).op = op
Popped == Tail(uiQueue)

UNCHANGED_BY_CALLBACK ==
  UNCHANGED <<fsVars, PYTHON_EXE, runs, gate, installVars, skipVars,
              renderVars>>

\* lambda: self.status_var.set(text)
DispatchStatus ==
  /\ Due("status")
  /\ status_var' = Status(Head(uiQueue).a, Head(uiQueue).b)
  /\ uiQueue' = Popped
  /\ UNCHANGED <<screen, installing, checks, descs, install_btn, skip_btn,
                 progress, mainVars>>
  /\ UNCHANGED_BY_CALLBACK

\* _set_check(key, state), as the state it draws
set_check(key, state) == [checks EXCEPT ![key] = state]

\* lambda: self._set_check(check_key, check_state)
DispatchCheck ==
  /\ Due("check")
  /\ checks' = set_check(Head(uiQueue).a, Head(uiQueue).b)
  /\ uiQueue' = Popped
  /\ UNCHANGED <<screen, installing, descs, status_var, install_btn, skip_btn,
                 progress, mainVars>>
  /\ UNCHANGED_BY_CALLBACK

\* lambda: self.checks[key]["desc"].config(text=text)
DispatchDesc ==
  /\ Due("desc")
  /\ descs' = [descs EXCEPT ![Head(uiQueue).a] = Head(uiQueue).b]
  /\ uiQueue' = Popped
  /\ UNCHANGED <<screen, installing, checks, status_var, install_btn, skip_btn,
                 progress, mainVars>>
  /\ UNCHANGED_BY_CALLBACK

\* lambda: self.progress.stop_indeterminate() and
\* lambda: self.progress.set_progress(0), the second and third callback of _fail
DispatchProgress ==
  /\ \/ /\ Due("stop_indeterminate")
        /\ progress' = [progress EXCEPT !.animating = FALSE]
     \/ /\ Due("set_progress")
        /\ progress' = [progress EXCEPT !.value = 0]
  /\ uiQueue' = Popped
  /\ UNCHANGED <<screen, installing, checks, descs, status_var, install_btn,
                 skip_btn, mainVars>>
  /\ UNCHANGED_BY_CALLBACK

\* lambda: self.install_btn.set_disabled(False), the last callback of _fail
DispatchEnableInstall ==
  /\ Due("enable_install")
  /\ install_btn' = FALSE
  /\ uiQueue' = Popped
  /\ UNCHANGED <<screen, installing, checks, descs, status_var, skip_btn,
                 progress, mainVars>>
  /\ UNCHANGED_BY_CALLBACK

\* _on_install_complete: root.after(1500, self._transition) comes last.
DispatchInstallComplete ==
  /\ Due("install_complete")
  /\ progress' = [animating |-> FALSE, value |-> 1]
  /\ status_var' = Status("install_done", "")
  /\ uiQueue' = Popped \o <<Cb("transition", "", "")>>
  /\ UNCHANGED <<screen, installing, checks, descs, install_btn, skip_btn,
                 mainVars>>
  /\ UNCHANGED_BY_CALLBACK

\* _on_skip_success(python_path): root.after(1200, self._transition) comes last.
DispatchSkipSuccess ==
  /\ Due("skip_success")
  /\ checks' = [k \in StepKeys |-> "done"]
  /\ status_var' = Status("skip_ok", Head(uiQueue).a)
  /\ progress' = [progress EXCEPT !.value = 1]
  /\ uiQueue' = Popped \o <<Cb("transition", "", "")>>
  /\ UNCHANGED <<screen, installing, descs, install_btn, skip_btn, mainVars>>
  /\ UNCHANGED_BY_CALLBACK

\* lambda: self._on_skip_fail(err)
DispatchSkipFail ==
  /\ Due("skip_fail")
  /\ on_skip_fail(Head(uiQueue).a)
  /\ uiQueue' = Popped
  /\ UNCHANGED <<screen, mainVars>>
  /\ UNCHANGED_BY_CALLBACK

\* lambda: self._on_skip_fail(str(e)), posted inside "except Exception as e".
\* The lambda reads e when the event loop runs it, and e is unbound as soon as
\* the worker thread leaves the except clause: the callback either still finds
\* e, or raises NameError, which Tk reports and which changes nothing.
DispatchSkipFailExc ==
  /\ Due("skip_fail_exc")
  /\ \E bound \in BOOLEAN :
       IF bound THEN on_skip_fail("exception_text")
       ELSE UNCHANGED setupVars
  /\ uiQueue' = Popped
  /\ UNCHANGED <<screen, mainVars>>
  /\ UNCHANGED_BY_CALLBACK

\* _transition: self.frame.destroy(); self.on_complete(), which builds
\* QuickAnimationsApp in the same root.  The wizard's fields keep their last
\* values.
DispatchTransition ==
  /\ Due("transition")
  /\ screen' = "main"
  /\ MainScreenInit
  /\ uiQueue' = Popped
  /\ UNCHANGED setupVars
  /\ UNCHANGED_BY_CALLBACK

\* lambda: self._set_status("Manim render ediliyor...", ...)
DispatchRenderStatus ==
  /\ Due("render_status")
  /\ status_text' = Status(Head(uiQueue).a, "")
  /\ uiQueue' = Popped
  /\ UNCHANGED <<screen, setupVars, svg_path, is_processing, render_btn,
                 render_progress>>
  /\ UNCHANGED_BY_CALLBACK

\* lambda: self._on_render_success(output_path)
DispatchRenderSuccess ==
  /\ Due("render_success")
  /\ on_render_success
  /\ uiQueue' = Popped
  /\ UNCHANGED <<screen, setupVars>>
  /\ UNCHANGED_BY_CALLBACK

\* lambda: self._on_render_error(err)
DispatchRenderError ==
  /\ Due("render_error")
  /\ on_render_error
  /\ uiQueue' = Popped
  /\ UNCHANGED <<screen, setupVars>>
  /\ UNCHANGED_BY_CALLBACK

\* lambda: self._on_render_error(str(e)), posted inside "except Exception as e":
\* the same late read of e as in validate.
DispatchRenderErrorExc ==
  /\ Due("render_error_exc")
  /\ \E bound \in BOOLEAN :
       IF bound THEN on_render_error
       ELSE UNCHANGED mainVars
  /\ uiQueue' = Popped
  /\ UNCHANGED <<screen, setupVars>>
  /\ UNCHANGED_BY_CALLBACK

UiDispatch ==
  \/ DispatchStatus
  \/ DispatchCheck
  \/ DispatchDesc
  \/ DispatchProgress
  \/ DispatchEnableInstall
  \/ DispatchInstallComplete
  \/ DispatchSkipSuccess
  \/ DispatchSkipFail
  \/ DispatchSkipFailExc
  \/ DispatchTransition
  \/ DispatchRenderStatus
  \/ DispatchRenderSuccess
  \/ DispatchRenderError
  \/ DispatchRenderErrorExc

\* ------------------------------------------------------- headless start
\* A headless start that does not ask the gate: C16 tells it from CliSays.
CliSaysWithoutGate(form, isfile, ready) ==
  IF form = "--cli" THEN <<"usage">>
  ELSE IF ~isfile THEN <<"file_not_found">>
  ELSE <<>>

\* What a headless start prints before it converts anything: the usage for
\* "--cli" alone, else the tests of _process_svg_cli in their order.
CliSays(form, isfile, ready) ==
  IF form = "--cli" THEN <<"usage">>
  ELSE IF ~isfile THEN <<"file_not_found">>
  ELSE IF ~ready THEN <<"run_gui_first">>
  ELSE <<>>

\* main() with arguments other than --setup, up to the gate of
\* _process_svg_cli: "--cli" alone prints the usage; a path that is not a file
\* prints "file not found" before the gate is asked; a false gate prints the
\* request to run the GUI first.  No window is built.
LaunchCli ==
  /\ screen = "closed"
  /\ screen' = "cli"
  /\ \E form \in {"path", "--cli path", "--cli"}, isfile \in BOOLEAN,
        timedOut \in BOOLEAN :
       LET g == is_setup_complete(marker, VenvExe, exeFiles, manimIn, timedOut)
           asked == form # "--cli" /\ isfile
           says == CliSays(form, isfile, g.result) IN
       /\ form = "--cli" => ~isfile /\ ~timedOut
       /\ ~isfile => ~timedOut
       /\ PYTHON_EXE' = IF asked THEN g.python_exe ELSE PYTHON_EXE
       /\ gate' = IF asked
                  THEN GateLog("cli", marker, exeFiles, manimIn, timedOut,
                               g.result, "none")
                  ELSE [NoGate EXCEPT !.mode = "cli", !.shown = "none"]
       /\ cli' = [NoCli EXCEPT !.form = form, !.printed = says,
                               !.pc = IF says = <<>> THEN "script" ELSE "done"]
  /\ UNCHANGED <<fsVars, runs, uiQueue, setupVars, installVars, skipVars,
                 mainVars, renderPc, renderWorkers, outputFile, rendered>>

UNCHANGED_BY_CLI ==
  UNCHANGED <<fsVars, PYTHON_EXE, screen, runs, gate, uiQueue, setupVars,
              installVars, skipVars, mainVars, renderPc, renderWorkers>>

\* _process_svg_cli: the old script is removed (FileNotFoundError is passed)
\* and the new one written; nothing catches another error of the two calls.
CliScript ==
  /\ cli.pc = "script"
  /\ \E raised \in BOOLEAN :
       cli' = IF raised THEN [cli EXCEPT !.pc = "done", !.escaped = TRUE]
              ELSE [cli EXCEPT !.pc = "render", !.script = TRUE]
  /\ UNCHANGED <<outputFile, rendered>>
  /\ UNCHANGED_BY_CLI

\* _process_svg_cli: subprocess.run(command, shell=True) without a timeout and
\* without check; only an interpreter that imports manim writes the file.
CliRender ==
  /\ cli.pc = "render"
  /\ \E written \in BOOLEAN :
       /\ written => PYTHON_EXE \in manimIn
       /\ outputFile' = (outputFile \/ written)
       /\ rendered' = IF written THEN "written" ELSE "not_written"
  /\ cli' = [cli EXCEPT !.pc = "cleanup", !.renders = cli.renders + 1]
  /\ UNCHANGED_BY_CLI

\* _process_svg_cli: os.remove(script_path), where only FileNotFoundError is
\* passed, then one of the two messages, by os.path.isfile(output_path).
CliReport ==
  /\ cli.pc = "cleanup"
  /\ \E removal \in {"removed", "FileNotFoundError", "PermissionError"} :
       cli' = IF removal = "PermissionError"
              THEN [cli EXCEPT !.pc = "done", !.escaped = TRUE]
              ELSE [cli EXCEPT !.pc = "done",
                               !.printed = cli.printed \o
                                 <<IF outputFile THEN "created" ELSE "not_created">>]
  /\ UNCHANGED <<outputFile, rendered>>
  /\ UNCHANGED_BY_CLI

CliStep == CliScript \/ CliRender \/ CliReport

\* ------------------------------------------------------------ specification
UserEvent ==
  \/ LaunchGui
  \/ LaunchSetup
  \/ ClickInstall
  \/ ClickSkip
  \/ BrowseFile
  \/ ClickRender

WorkerStep ==
  \/ InstallWorkerStep
  \/ SkipValidate
  \/ RenderScript
  \/ RenderManim

Next == UserEvent \/ UiDispatch \/ WorkerStep

Spec == Init /\ [][Next]_vars

\* Every way to start the program, skip-validation and the main screen on
\* every disk state, with or without an output file of an earlier conversion
\* on the desktop.
GateInit ==
  /\ InitOn(AllDisks) /\ loc = NoLocator /\ report = NoReport
  /\ outputFile \in BOOLEAN

GateNext ==
  \/ LaunchGui
  \/ LaunchSetup
  \/ LaunchCli
  \/ CliStep
  \/ ClickSkip
  \/ SkipValidate
  \/ DispatchSkipSuccess
  \/ DispatchSkipFail
  \/ DispatchSkipFailExc
  \/ DispatchTransition
  \/ BrowseFile
  \/ ClickRender
  \/ RenderScript
  \/ RenderManim
  \/ DispatchRenderStatus
  \/ DispatchRenderSuccess
  \/ DispatchRenderError
  \/ DispatchRenderErrorExc

GateSpec == GateInit /\ [][GateNext]_vars

\* The bootstrap under the scheduling the program runs with: a worker thread
\* that has a step to take takes it (every call it waits for has a timeout),
\* and the event loop runs every callback that was posted.  The session starts
\* on a machine without a marker.
FreshDisks ==
  {Disk(NoMarker, "none", "missing"), Disk(NoMarker, "none", "bare"),
   Disk(NoMarker, "bare", "manim")}
LiveInit ==
  InitOn(FreshDisks) /\ loc = NoLocator /\ report = NoReport /\ outputFile = FALSE
LiveSpec == LiveInit /\ [][Next]_vars /\ WF_vars(WorkerStep) /\ WF_vars(UiDispatch)

\* find_system_python() called on the machine of loc.slots.
CallLocator ==
  /\ loc.result = Pending
  /\ loc' = [loc EXCEPT !.result = find_system_python(loc.slots)]
  /\ UNCHANGED <<fsVars, PYTHON_EXE, screen, runs, gate, uiQueue, setupVars,
                 installPc, installWorkers, python_for_venv, run, report,
                 skipVars, mainVars, renderVars>>

\* The locator on every machine on which at most MaxFiles of the candidates
\* are files.
LocatorInit ==
  /\ InitOn({Disk(NoMarker, "none", "missing")})
  /\ report = NoReport /\ outputFile = FALSE
  /\ \E F \in SUBSET (1..Len(Candidates)) :
       /\ Cardinality(F) <= MaxFiles
       /\ \E q \in [F -> Queries] :
            loc = [slots |-> Machine(F, q), result |-> Pending]
LocatorSpec == LocatorInit /\ [][CallLocator]_vars

\* A tool of one of the three steps exits non-zero and the worker builds the
\* message for _fail.
BuildFailureMessage ==
  /\ report.step # "" /\ ~report.built
  /\ report' = [report EXCEPT
                  !.built = TRUE,
                  !.message = FailureMessage(report.step, StderrOf(report.stderr)).text]
  /\ UNCHANGED <<fsVars, PYTHON_EXE, screen, runs, gate, uiQueue, setupVars,
                 installPc, installWorkers, python_for_venv, run, loc, skipVars,
                 mainVars, renderVars>>

\* The messages for every step and every length of stderr up to MaxStderr.
ReportInit ==
  /\ InitOn({Disk(NoMarker, "none", "missing")})
  /\ loc = NoLocator /\ outputFile = FALSE
  /\ \E step \in {"venv", "pip", "manim"}, n \in 0..MaxStderr :
       report = [NoReport EXCEPT !.step = step, !.stderr = n]
ReportSpec == ReportInit /\ [][BuildFailureMessage]_vars

\* ---------------------------------------------------------------- properties
\* The steps that come after step k in the checklist.
LaterSteps(k) == {j \in StepKeys : StepIndex(j) > StepIndex(k)}

\* A failed bootstrap run whose worker has returned and whose callbacks have
\* all run.
FailedAndSettled ==
  run.outcome = "failed" /\ installPc = "idle" /\ uiQueue = <<>>

\* C1: a failed bootstrap step halts the run at that step: the run has
\* started no later step, every later step shows 'pending', and the marker is
\* as the run found it.
C1_FailureHaltsRun ==
  run.outcome = "failed" =>
    /\ LaterSteps(run.at) \cap run.started = {}
    /\ \A k \in LaterSteps(run.at) : checks[k] = "pending"
    /\ marker = run.marker0

\* C1, the part the code keeps: the failed run started no later step and left
\* the marker alone; in the first run of a wizard the later steps are 'pending'.
C1_HaltsAndKeepsMarker ==
  run.outcome = "failed" =>
    /\ LaterSteps(run.at) \cap run.started = {}
    /\ marker = run.marker0
    /\ runs = 1 => \A k \in LaterSteps(run.at) : checks[k] = "pending"

\* A retry that failed at an earlier step than the run before it.
C1_StaleLaterStep ==
  /\ FailedAndSettled
  /\ runs = 2
  /\ \E k \in LaterSteps(run.at) : checks[k] # "pending"

\* The marker the gate of a windowed start looked at was absent, unparsable or
\* named an interpreter that is not a file.
GateUnusableMarker ==
  /\ gate.ran /\ gate.mode = "gui"
  /\ \/ gate.kind \in {"absent", "unparsable"}
     \/ gate.kind = "record" /\ ~gate.ref_exists

\* C2 as stated: with the marker absent, unparsable or naming a missing
\* interpreter the gate answers false and the start shows the wizard.
C2_UnusableMarkerIsNotReady ==
  GateUnusableMarker => ~gate.result /\ gate.shown = "setup"

\* C2, as the code has it: the gate answers false when the marker is absent,
\* and when the marker is unparsable or names a missing interpreter while the
\* default environment interpreter is missing as well; with such a marker and
\* the default interpreter in place the answer is that of the import probe run
\* with the default interpreter.  A false answer shows the wizard.
C2_NotReadyUnlessDefaultInterpreter ==
  GateUnusableMarker =>
    /\ gate.kind = "absent" => ~gate.result
    /\ ~gate.default_exists => ~gate.result
    /\ gate.kind # "absent" /\ gate.default_exists =>
         (gate.result <=> (gate.default_imports /\ ~gate.timed_out))
    /\ ~gate.result => gate.shown = "setup"

\* A start with a marker whose interpreter is gone and no default interpreter.
C2_DanglingShowsWizard ==
  /\ gate.ran /\ gate.mode = "gui"
  /\ gate.kind = "record" /\ ~gate.ref_exists /\ ~gate.default_exists
  /\ ~gate.result /\ screen = "setup"

\* The marker the gate of a windowed start looked at parsed and named an
\* interpreter that is a file.
GateUsableMarker ==
  gate.ran /\ gate.mode = "gui" /\ gate.kind = "record" /\ gate.ref_exists

\* C3 as stated: with a marker that parses and names an existing interpreter
\* the gate answers true, whatever an import probe would say.
C3_RecordIsTrusted == GateUsableMarker => gate.result

\* C3, as the code has it: with such a marker the gate answers true exactly
\* when the import probe, run with the interpreter the marker names, prints ok
\* in time.
C3_RecordIsProbed ==
  GateUsableMarker => (gate.result <=> (gate.ref_imports /\ ~gate.timed_out))

\* A start with a usable marker whose interpreter does not import manim.
C3_ProbeRejectsRecord ==
  /\ GateUsableMarker /\ ~gate.ref_imports /\ ~gate.timed_out
  /\ ~gate.result /\ screen = "setup"

\* C4: every failure of a bootstrap run ends with a failure message in the
\* status line and with 'error' on the step that was in progress; the step
\* does not go on showing 'active'.
C4_FailureMarksStep ==
  FailedAndSettled =>
    /\ status_var.kind = "fail"
    /\ checks[run.at] = "error"

\* C4, the part the code keeps: every failure ends with a failure message, and
\* a failure the worker detects itself (an exit code, a download that
\* returned nothing) marks the step 'error'.
C4_FailureIsReported ==
  FailedAndSettled =>
    /\ status_var.kind = "fail"
    /\ run.how = "exit" => checks[run.at] = "error"

\* A run that an exception ended and whose step still shows 'active'.
C4_StepLeftActive ==
  FailedAndSettled /\ run.how = "exception" /\ checks[run.at] = "active"

\* A skip-validation run that did not validate the interpreter, with the
\* worker returned and its callback run.
SkipFailedAndSettled ==
  skipRun.outcome \in {"failed", "raised"} /\ skipPc = "idle" /\ uiQueue = <<>>

\* C5: a skip-validation that fails leaves the marker and PYTHON_EXE as it
\* found them and shows the diagnostic text it captured.
C5_FailedSkipReports ==
  skipRun.outcome \in {"failed", "raised"} =>
    /\ marker = skipRun.marker0
    /\ PYTHON_EXE = skipRun.exe0
    /\ SkipFailedAndSettled => status_var = Status("skip_fail", skipRun.err)

\* C5, the part the code keeps: marker and PYTHON_EXE are left alone, and a
\* probe that returned without "ok" has its text shown.
C5_FailedSkipKeepsRecord ==
  skipRun.outcome \in {"failed", "raised"} =>
    /\ marker = skipRun.marker0
    /\ PYTHON_EXE = skipRun.exe0
    /\ SkipFailedAndSettled /\ skipRun.outcome = "failed" =>
         status_var = Status("skip_fail", skipRun.err)

\* A probe that raised and whose text never reached the status line.
C5_DiagnosticLost ==
  /\ SkipFailedAndSettled /\ skipRun.outcome = "raised"
  /\ status_var.kind = "validating"
  /\ install_btn /\ skip_btn

\* C6: a skip-validation whose interpreter imports manim leaves a marker with
\* skipped_setup = true, python_version = "custom" and python_exe = the file
\* picked, and goes through none of the bootstrap's steps: no bootstrap run
\* has started, and the interpreters on disk, what they import and the
\* environment directory are as the validation found them.
C6_SkipWritesRecordOnly ==
  skipRun.outcome = "ok" =>
    /\ marker.kind = "record"
    /\ marker.skipped_setup = TRUE
    /\ marker.python_version = "custom"
    /\ marker.python_exe = skipRun.path
    /\ run = NoRun /\ installPc = "idle" /\ installWorkers = 0
    /\ skipRun.venv0 = {<<venvDir, exeFiles, manimIn>>}

\* A validated interpreter, its record written and the main screen shown.
C6_SkipReachedMain ==
  /\ skipRun.outcome = "ok" /\ skipRun.path = CustomExe
  /\ marker.skipped_setup /\ screen = "main"

\* The bootstrap's completion is under way or has been shown: its callback is
\* posted, its status line is set, or the wizard has handed over to the main
\* screen without a validated skip.
CompletionSignalled ==
  \/ \E i \in 1..Len(uiQueue) : uiQueue[i].op = "install_complete"
  \/ status_var.kind = "install_done"
  \/ screen = "main" /\ gate.shown = "setup" /\ skipRun.outcome # "ok"

\* The marker a completed bootstrap leaves.
MarkerWritten ==
  /\ run.outcome = "complete"
  /\ marker.kind = "record" /\ marker.python_version = PYTHON_VERSION

\* C7: a start without a marker shows the wizard; the worker writes the marker
\* only with all five steps reported 'done'; completion is signalled and the
\* main screen shown only with the marker written; and once the five steps of
\* a run have succeeded the marker is eventually written with the configured
\* version and the main screen shown.
C7_BootstrapCompletes ==
  /\ [](gate.ran /\ gate.mode = "gui" /\ gate.kind = "absent" =>
          gate.shown = "setup")
  /\ [](installPc = "marker" \/ run.outcome = "complete" => run.done = StepKeys)
  /\ [](CompletionSignalled => MarkerWritten)
  /\ (installPc = "marker" ~> (MarkerWritten /\ screen = "main"))

\* A machine without a marker, bootstrapped, now on the main screen with every
\* step shown 'done'.
C7_FreshMachineReachedMain ==
  /\ gate.mode = "gui" /\ gate.kind = "absent"
  /\ MarkerWritten /\ screen = "main"
  /\ \A k \in StepKeys : checks[k] = "done"

\* C8: after a failed bootstrap run both buttons of the wizard become enabled
\* again (once the worker has returned and its callbacks have run, nothing
\* else is left that could enable them).
C8_BothButtonsRecover ==
  FailedAndSettled => ~install_btn /\ ~skip_btn /\ ~installing

\* C8, the part the code keeps: the install button recovers and the guard flag
\* is cleared.
C8_InstallButtonRecovers ==
  FailedAndSettled => ~install_btn /\ ~installing

\* A failed run after which the skip button stays disabled.
C8_SkipStaysDisabled == FailedAndSettled /\ ~install_btn /\ skip_btn

\* C9: of each kind of worker (bootstrap, skip-validation, render) at most one
\* is running.
C9_OneWorkerPerOperation ==
  installWorkers <= 1 /\ skipWorkers <= 1 /\ renderWorkers <= 1

\* Two bootstrap workers have run one after the other, the second to the end,
\* and a render worker is running with the render button switched off and the
\* flag set.
C9_WorkersInSequence ==
  /\ runs = 2 /\ run.outcome = "complete" /\ installWorkers = 0
  /\ renderWorkers = 1 /\ is_processing /\ render_btn

\* C10: a bootstrap worker and a skip-validation worker never run at the same
\* time.
C10_BootstrapExcludesSkip == ~(installWorkers > 0 /\ skipWorkers > 0)

\* A validation is running with the install button switched off although the
\* guard flag is clear.
C10_SkipHoldsInstallOff ==
  skipWorkers = 1 /\ installWorkers = 0 /\ ~installing /\ install_btn

\* C11: the encoder step never fails the run: a run whose manim step is done
\* does not fail, whatever the encoder probe and the installation of the
\* fallback package do.
C11_EncoderStepNeverFails ==
  "manim" \in run.done => run.outcome # "failed"

\* C11, the part the code keeps: a missing encoder binary and a non-zero exit
\* of the probe or of the fallback installation do not fail the run; only an
\* exception other than FileNotFoundError does.
C11_MissingEncoderTolerated ==
  "manim" \in run.done /\ run.outcome = "failed" =>
    run.how = "exception" /\ run.call \in {"ffmpeg", "ffmpeg_fallback"}

\* A run that failed in the encoder step, with no marker written.
C11_EncoderTimeoutFailedRun ==
  /\ FailedAndSettled /\ run.call = "ffmpeg" /\ "manim" \in run.done
  /\ marker = run.marker0 /\ status_var.kind = "fail"

\* C12: no failure of the pip self-upgrade aborts the run: no run fails in
\* that call, and when the call is over the pip step is reported 'done' and
\* the manim step is started.
C12_UpgradeIsBestEffort ==
  /\ run.outcome = "failed" => run.call # "pip_upgrade"
  /\ installPc = "manim" => "pip" \in run.done /\ "manim" \in run.started

\* C12, the part the code keeps: a non-zero exit of the upgrade is not looked
\* at; a run fails in that call only with an exception.
C12_UpgradeExitCodeIgnored ==
  /\ run.outcome = "failed" /\ run.call = "pip_upgrade" => run.how = "exception"
  /\ installPc = "manim" => "pip" \in run.done /\ "manim" \in run.started

\* A run that failed in the self-upgrade, its pip step left 'active'.
C12_UpgradeTimeoutFailedRun ==
  /\ FailedAndSettled /\ run.call = "pip_upgrade"
  /\ "pip" \notin run.done /\ "manim" \notin run.started

\* C13: when environment creation is reached the environment directory is gone,
\* and the environment a run has created holds no file from before the run.
C13_FreshEnvironment ==
  /\ installPc = "venv" => ~venvDir.exists
  /\ "venv" \in run.done => venvDir.files = {"fresh"}

\* C13, the part the code keeps: the removal is attempted whenever the
\* directory exists, and a created environment holds the new files; when the
\* removal went through, nothing else.
C13_RemovalAttempted ==
  /\ installPc = "venv" /\ venvDir.exists => venvDir.files = {"stale"}
  /\ "venv" \in run.done => "fresh" \in venvDir.files

\* An environment created over a directory that rmtree could not remove.
C13_StaleFileSurvives ==
  "venv" \in run.done /\ venvDir.files = {"stale", "fresh"}

\* The locator has returned.
LocatorReturned == loc.result # Pending

\* Candidate i is a file whose version query returns in time having printed a
\* version 3.x with x at least MinMinor.
PrintsGoodVersion(i) ==
  /\ loc.slots[i].isfile /\ loc.slots[i].query.kind = "returned"
  /\ loc.slots[i].query.version.major = 3
  /\ loc.slots[i].query.version.minor >= MinMinor

\* Candidate i is acceptable: its version query moreover exits with 0.
Acceptable(i) == PrintsGoodVersion(i) /\ loc.slots[i].query.exit = 0

\* The first of the candidates that satisfy Ok, or None.
FirstOf(Ok(_)) ==
  IF \E i \in 1..Len(Candidates) : Ok(i)
  THEN Candidates[CHOOSE i \in 1..Len(Candidates) :
                    Ok(i) /\ \A j \in 1..(i - 1) : ~Ok(j)]
  ELSE None

\* C14: the locator never raises: whatever the candidates do, it returns one of
\* the candidate paths or None, and it returns None when no candidate is
\* acceptable.
C14_LocatorNeverRaises ==
  LocatorReturned =>
    /\ loc.result \in {Candidates[i] : i \in 1..Len(Candidates)} \cup {None}
    /\ (\A i \in 1..Len(Candidates) : ~Acceptable(i)) => loc.result = None

\* C14, the part the code keeps: it returns a candidate path or None, and None
\* when no candidate prints a good version, whatever the exit codes.
C14_LocatorIsTotal ==
  LocatorReturned =>
    /\ loc.result \in {Candidates[i] : i \in 1..Len(Candidates)} \cup {None}
    /\ (\A i \in 1..Len(Candidates) : ~PrintsGoodVersion(i)) => loc.result = None

\* Every file among the candidates raised or was too old, and None came back.
C14_AllCandidatesFail ==
  /\ loc.result = None
  /\ \E i, j \in 1..Len(Candidates) :
       /\ i # j /\ loc.slots[i].isfile /\ loc.slots[j].isfile
       /\ loc.slots[i].query.kind = "TimeoutExpired"
       /\ loc.slots[j].query.kind = "returned" /\ loc.slots[j].query.version.minor = 7

\* C15: the locator returns the first acceptable candidate in the order of the
\* list, and None when there is none: a candidate whose query exits non-zero,
\* times out or prints no version of at least 3.8 is passed over.
C15_FirstAcceptableCandidate ==
  LocatorReturned => loc.result = FirstOf(Acceptable)

\* C15, the part the code keeps: the first candidate in the order of the list
\* that prints a good version is returned; the exit code is not looked at.
C15_FirstGoodVersion ==
  LocatorReturned => loc.result = FirstOf(PrintsGoodVersion)

\* A candidate returned although its version query exited non-zero, ahead of
\* an acceptable one.
C15_NonZeroExitReturned ==
  \E i, j \in 1..Len(Candidates) :
    /\ i < j /\ loc.result = Candidates[i]
    /\ loc.slots[i].query.exit = 1 /\ Acceptable(j)

\* A headless start with a path on the command line.
CliWithPath == cli.form \in {"path", "--cli path"}

\* Setup is not complete: there is no marker, or the gate has said so.
SetupIncomplete ==
  marker.kind = "absent" \/ (gate.ran /\ gate.mode = "cli" /\ ~gate.result)

\* C16 as stated: a headless start shows no window and converts only with
\* setup complete; with setup incomplete it prints the request to run the GUI
\* first, writes no script and calls no renderer.
C16_IncompleteSetupAsksForGui ==
  CliWithPath =>
    /\ screen = "cli"
    /\ cli.script \/ cli.renders > 0 => gate.ran /\ gate.result
    /\ SetupIncomplete /\ cli.pc = "done" =>
         cli.printed = <<"run_gui_first">> /\ ~cli.script /\ cli.renders = 0

\* C16, as the code has it: the path is tested first.  A path that is no file
\* prints "file not found" and the gate is not asked; a file with setup
\* incomplete prints the request to run the GUI first.  Either way no script
\* is written and no renderer called, and no window is shown.
C16_FileTestedBeforeSetup ==
  CliWithPath =>
    /\ screen = "cli"
    /\ cli.script \/ cli.renders > 0 => gate.ran /\ gate.result
    /\ SetupIncomplete /\ cli.pc = "done" =>
         /\ ~cli.script /\ cli.renders = 0
         /\ cli.printed = IF gate.ran THEN <<"run_gui_first">>
                          ELSE <<"file_not_found">>

\* A headless start on a machine without a marker, sent to the GUI.
C16_SentToGui ==
  /\ CliWithPath /\ cli.pc = "done" /\ marker.kind = "absent"
  /\ gate.ran /\ ~gate.result /\ cli.printed = <<"run_gui_first">>

\* The message that belongs to the state of the output file.
MessageForFile == <<IF outputFile THEN "created" ELSE "not_created">>

\* C17: a headless conversion that has called the renderer ends with exactly
\* one message, the one that belongs to the output file, and no exception
\* leaves _process_svg_cli.
C17_OneMessageNoException ==
  CliWithPath /\ cli.pc = "done" /\ cli.renders > 0 =>
    ~cli.escaped /\ cli.printed = MessageForFile

\* C17, the part the code keeps: unless the removal of the script raises, one
\* message is printed and it belongs to the output file; the renderer is
\* called once.
C17_MessageFollowsFile ==
  CliWithPath /\ cli.pc = "done" /\ cli.renders > 0 =>
    /\ cli.renders = 1
    /\ ~cli.escaped => cli.printed = MessageForFile
    /\ cli.escaped => cli.printed = <<>>

\* A conversion left by an exception after the renderer call, nothing printed.
C17_ExceptionEscaped ==
  CliWithPath /\ cli.pc = "done" /\ cli.renders = 1 /\ cli.escaped

\* C18: a windowed start without arguments shows the main screen exactly when
\* the gate says true and the wizard exactly when it says false; --setup shows
\* the wizard whatever is on disk; and the wizard gives way to the main screen
\* only when a validation or a bootstrap has succeeded.
C18_GateDecidesScreen ==
  /\ gate.mode = "gui" =>
       /\ gate.ran
       /\ gate.shown = "main" <=> gate.result
       /\ gate.shown = "setup" <=> ~gate.result
  /\ gate.mode = "setup" => gate.shown = "setup"
  /\ gate.shown = "main" => screen = "main"
  /\ gate.shown = "setup" =>
       \/ screen = "setup"
       \/ screen = "main" /\ (skipRun.outcome = "ok" \/ run.outcome = "complete")

\* --setup on a machine with a complete environment and its marker: the wizard.
C18_SetupForcedOverRecord ==
  /\ gate.mode = "setup" /\ screen = "setup"
  /\ marker = InstallRecord(VenvExe)
  /\ VenvExe \in exeFiles /\ VenvExe \in manimIn

\* What the event loop's widgets show and the main screen's flag.
uiOwned ==
  <<checks, descs, status_var, install_btn, skip_btn, progress, svg_path,
    is_processing, render_btn, status_text, render_progress>>

\* A running worker thread takes a step.
WorkerActs ==
  \/ installPc # "idle" /\ installPc' # installPc
  \/ skipPc # "idle" /\ skipPc' # skipPc
  \/ renderPc # "idle" /\ renderPc' # renderPc

\* The status a posted _set_check is about to apply follows the order of the
\* run: 'done' and 'error' come onto 'active', and a step turns 'active' with
\* the step before it 'done'.
CheckOrder ==
  Due("check") =>
    LET k == Head(uiQueue).a
        st == Head(uiQueue).b IN
    /\ st \in {"done", "error"} => checks[k] = "active"
    /\ st = "active" /\ StepIndex(k) > 1 => checks[Steps[StepIndex(k) - 1]] = "done"

\* q is p with callbacks appended.
Extends(q, p) == Len(q) >= Len(p) /\ SubSeq(q, 1, Len(p)) = p

\* Callbacks are appended at the end and run from the front.
QueueIsFifo ==
  \/ Extends(uiQueue', uiQueue)
  \/ uiQueue # <<>> /\ Extends(uiQueue', Tail(uiQueue))

\* C19 as stated: updates reach the UI through posted callbacks only and are
\* applied in the order of emission, and a worker step writes none of the
\* UI-owned state, the guard flag _installing included.
C19_WorkerWritesNoUiState ==
  /\ []CheckOrder
  /\ [][QueueIsFifo]_vars
  /\ [][WorkerActs => UNCHANGED <<uiOwned, installing>>]_vars

\* C19, as the code has it: the same, except that the worker clears the guard
\* flag itself, in the last line of _fail, after it has posted the callbacks
\* of the failure; a worker step writes nothing else the UI owns.
C19_WorkerWritesOnlyGuardFlag ==
  /\ []CheckOrder
  /\ [][QueueIsFifo]_vars
  /\ [][WorkerActs =>
          /\ UNCHANGED uiOwned
          /\ installing' # installing => installPc = "fail_return" /\ ~installing']_vars

\* The worker has cleared the flag and returned while the callbacks of its
\* failure are still waiting: the install button is still disabled.
C19_FlagClearedBeforeCallbacks ==
  /\ run.outcome = "failed" /\ installPc = "idle" /\ ~installing
  /\ install_btn /\ uiQueue # <<>> /\ checks["python"] = "done"

\* The number of characters of a stderr of n characters that fit the budget.
Kept(n, budget) == IF n < budget THEN n ELSE budget

\* C20: the message of a non-zero exit carries the tail of stderr: as many
\* characters as the budget allows, and they are the last ones.
C20_MessageCarriesTail ==
  report.built =>
    LET kept == Kept(report.stderr, StderrBudget(report.step)) IN
    /\ Len(report.message) = kept
    /\ \A i \in 1..kept : report.message[i] = report.stderr - kept + i

\* C20, as the code has it: the message carries as many characters as the
\* budget allows (200, and 300 for manim), and they are the first ones.
C20_MessageCarriesHead ==
  report.built =>
    LET kept == Kept(report.stderr, StderrBudget(report.step)) IN
    /\ Len(report.message) = kept
    /\ \A i \in 1..kept : report.message[i] = i

\* A stderr longer than the budget whose last character is not in the message.
C20_TailCutOff ==
  /\ report.built /\ report.step = "manim" /\ report.stderr > ManimBudget
  /\ \A i \in 1..Len(report.message) : report.message[i] # report.stderr

\* C21: after a successful bootstrap run the record's python_exe and the
\* interpreter the renders of the session use are both the interpreter of the
\* environment the run created.
C21_RecordAndRendersUseNewEnvironment ==
  run.outcome = "complete" =>
    marker.python_exe = VenvExe /\ PYTHON_EXE = VenvExe

\* C21, the part the code keeps: the record names the interpreter the session
\* uses, and that is the new environment's unless the launch gate had loaded
\* another path from the record it found.
C21_RecordNamesSessionInterpreter ==
  run.outcome = "complete" =>
    /\ marker = InstallRecord(PYTHON_EXE)
    /\ PYTHON_EXE = (IF gate.mode = "gui" /\ gate.kind = "record" /\ gate.ref_exists
                     THEN run.marker0.python_exe
                     ELSE VenvExe)

\* A render started after a successful bootstrap with the interpreter of the
\* old record, which does not import manim.
C21_RenderWithOldInterpreter ==
  /\ run.outcome = "complete" /\ screen = "main" /\ renderPc = "manim"
  /\ run.marker0 = SkipRecord(CustomExe)
  /\ PYTHON_EXE = CustomExe /\ CustomExe \notin manimIn
  /\ marker.python_exe = CustomExe

\* The five statuses as a linear prefix: the first i steps 'done', the next one
\* 'active' or 'pending', every later one 'pending'.
LinearPrefix ==
  \E i \in 0..Len(Steps) :
    \A j \in 1..Len(Steps) :
      IF j <= i THEN checks[Steps[j]] = "done"
      ELSE IF j = i + 1 THEN checks[Steps[j]] \in {"active", "pending"}
      ELSE checks[Steps[j]] = "pending"

\* C22: during every bootstrap run, a retry included, the step statuses form a
\* linear prefix: at most one step 'active', the steps before it 'done', the
\* steps after it 'pending'.
C22_StatusesFormLinearPrefix == run.outcome = "running" => LinearPrefix

\* C22, the part the code keeps: the statuses form a linear prefix during the
\* first run of a wizard.
C22_FirstRunIsLinear == run.outcome = "running" /\ runs = 1 => LinearPrefix

\* A retry in progress whose first step is 'active' while a later step still
\* shows the 'done' or the 'error' of the run before.
C22_RetryShowsOldStatuses ==
  /\ run.outcome = "running" /\ runs = 2
  /\ checks["python"] = "active"
  /\ checks["venv"] = "done" /\ checks["manim"] = "error"

\* The main screen with no render worker running and no callback waiting.
RenderSettled ==
  screen = "main" /\ renderPc = "idle" /\ renderWorkers = 0 /\ uiQueue = <<>>

\* C23: every render finishes its bookkeeping.  Once the render worker has
\* returned and every posted callback has run, the in-progress flag is clear
\* and the render button enabled.
C23_RenderBookkeepingFinishes ==
  RenderSettled => ~is_processing /\ ~render_btn

\* C23, the part the code keeps: the callback posted after the renderer call
\* (the file was produced, or it was not) clears the flag and enables the
\* button when it runs.
C23_ResultCallbackFinishes ==
  [][(Due("render_success") \/ Due("render_error")) /\ uiQueue' = Popped
       => ~is_processing' /\ ~render_btn']_vars

\* A render whose worker raised and whose callback found e unbound: the worker
\* is gone, nothing is waiting, the flag is set and the button disabled.
C23_RenderStuck ==
  /\ RenderSettled /\ is_processing /\ render_btn
  /\ status_text.kind \in {"starting", "rendering"}

\* A skip-validation run whose worker has returned and whose callbacks, the
\* delayed _transition included, have all run.
SkipSettled ==
  /\ skipRun.outcome \in {"ok", "failed", "raised"}
  /\ skipPc = "idle" /\ skipWorkers = 0 /\ uiQueue = <<>>

\* The two outcomes of a skip-validation.
SkipSucceeded ==
  skipRun.outcome = "ok" /\ screen = "main" /\ marker = SkipRecord(skipRun.path)
SkipFailureShown ==
  /\ skipRun.outcome # "ok" /\ screen = "setup"
  /\ status_var.kind = "skip_fail"
  /\ ~install_btn /\ ~skip_btn

\* C24: every skip-validation run ends in success (record written, main
\* screen) or in failure with the message shown and both buttons enabled, a
\* probe that raised included.
C24_SkipEndsInOneOutcome == SkipSettled => SkipSucceeded \/ SkipFailureShown

\* C24, the part the code keeps: a run whose probe returned ends in one of the
\* two outcomes.
C24_ReturnedProbeEndsInOneOutcome ==
  SkipSettled /\ skipRun.outcome # "raised" => SkipSucceeded \/ SkipFailureShown

\* The wizard after a probe that raised: no worker is running, nothing is
\* waiting in the event loop, and both buttons are disabled.
C24_WizardStuck ==
  /\ SkipSettled /\ skipRun.outcome = "raised" /\ screen = "setup"
  /\ installWorkers = 0 /\ install_btn /\ skip_btn

\* This conversion has been reported as successful: the main screen's status
\* line, or the message of a headless start.
ReportedSuccessful ==
  \/ status_text.kind = "done"
  \/ \E i \in 1..Len(cli.printed) : cli.printed[i] = "created"

\* C25: a conversion is reported as successful only if its own renderer call
\* produced the output file.
C25_SuccessMeansProduced == ReportedSuccessful => rendered = "written"

\* C25, as the code has it: a conversion is reported as successful only if
\* the output file exists after its renderer call returned.
C25_SuccessMeansFileExists ==
  ReportedSuccessful => outputFile /\ rendered \in {"written", "not_written"}

\* A headless conversion whose renderer call wrote nothing and which printed
\* the message of success.
C25_StaleFileReported ==
  /\ cli.pc = "done" /\ cli.renders = 1 /\ rendered = "not_written"
  /\ cli.printed = <<"created">>

====
